---- MODULE Spec2Model ----
(***************************************************************************)
(* Model of the support-assistant frontend: the ChatWindow component       *)
(* (message list, typed send, 'ai-message' listener, conversation load,    *)
(* autoplay text-to-speech queue), the ScreenShare component (start/stop,  *)
(* screenshot upload) and the Home page flags that connect them.           *)
(*                                                                         *)
(* Scheduling model (React 18, single-threaded event loop).  One action is *)
(* one browser task: the handler or promise continuation that the task     *)
(* runs, the micro-task continuations it unblocks (code after an `await`   *)
(* of a promise that the task resolved), then the render React schedules   *)
(* for the batched state updates, and the effects of that render.  A       *)
(* function created by a render keeps the values of the state variables of *)
(* that render (its closure); a continuation that runs after an `await`    *)
(* still sees the closure of the render that started it.                   *)
(***************************************************************************)
EXTENDS Integers, Sequences, FiniteSets, Bags, TLC

(***************************************************************************)
(* Bounds of the model.                                                    *)
(***************************************************************************)
MaxId == 3          \* Spec: message ids handed out in one session, 2..MaxId
MaxOps == 2         \* Spec: text-to-speech operations in flight at once
MaxShareId == 5     \* ShareSpec: message ids handed out, 2..MaxShareId
MaxUploads == 2     \* ShareSpec: screenshot operations in flight at once
MaxStarts == 1      \* ShareSpec: startScreenShare calls in flight at once
MaxStreams == 2     \* ShareSpec: screen captures granted in one session
MaxTime == 11       \* ClockSpec: time units counted since the last capture
MaxPad == 1         \* StoreSpec: white space at either end of a transcript
MaxStoreId == 5     \* StoreSpec: message ids handed out, 2..MaxStoreId
MaxStoreLen == 3    \* StoreSpec: list length up to which an id may recur
MaxSendId == 5      \* SendSpec: message ids handed out, 2..MaxSendId
MaxHomeStarts == 2  \* HomeSpec: startScreenShare calls in flight at once

(***************************************************************************)
(* Values.                                                                 *)
(***************************************************************************)
GreetingId == 1
NoId == 0
NoConv == 0
NoStream == 0
\* README, Auto-Capture: "captured every 10 seconds".
CapturePeriod == 10
\* onTranscript: text.trim().length > 10
MinTranscript == 10

Msg(id, sender) == [id |-> id, sender |-> sender]
NoMsg == Msg(NoId, "none")
Greeting == Msg(GreetingId, "ai")
Ids(msgs) == {msgs[i].id : i \in 1..Len(msgs)}

\* A text, as far as the code looks at it: the white space at its two ends
\* and the length of what lies between (0: the text is white space only).
Text(lead, core, trail) == [lead |-> lead, core |-> core, trail |-> trail]
EmptyText == Text(0, 0, 0)
\* undefined, where a text is expected.
NoText == [lead |-> 0, core |-> 0, trail |-> 0, undefined |-> TRUE]

\* text.length
length(text) == text.lead + text.core + text.trail

\* text.trim(): the white space at both ends is removed.
trim(text) == IF text.core = 0 THEN EmptyText ELSE Text(0, text.core, 0)

\* Conversation ids the backend hands out.
ConvIds == {1}
\* The conversation the backend opens for a message that comes without a
\* conversation id, as the screenshot message does.
NewConv == 2

\* The conversation kept by the backend, as the Load button maps it
\* (role 'user' -> 'user', anything else -> 'ai'); a load returns the
\* messages it holds at that moment, a prefix of this sequence.
StoredConversation == <<Msg(101, "user"), Msg(102, "ai")>>
StoredId == 1

VARIABLES
  messages,            \* ChatWindow: useState messages
  inputMessage,        \* ChatWindow: useState inputMessage
  isLoading,           \* ChatWindow: useState isLoading
  conversationId,      \* ChatWindow: useState conversationId (NoConv = null)
  connectionStatus,    \* ChatWindow: 'checking' | 'connected' | 'offline'
  error,               \* ChatWindow: error banner ("none" = null)
  isAutoplayActive,    \* ChatWindow: useState isAutoplayActive
  isPlayingAudio,      \* ChatWindow: useState isPlayingAudio
  playedMessageIds,    \* ChatWindow: playedMessageIdsRef.current
  ttsOps,              \* playAIMessageTTS calls in flight, with their closure
  chatReqs,            \* chatService.sendMessage calls of ChatWindow in flight
  nextId,              \* next fresh message id
  isScreenShareRequested, \* Home: useState isScreenShareRequested
  isScreenSharing,     \* Home: useState isScreenSharing
  activeTab,           \* Home: 'chat' | 'screen'
  mobileMessages,      \* the ChatWindow of Home's mobile view: its messages
                       \* (<<>> while it is not mounted)
  listeners,           \* window: the 'ai-message' listeners, as registered
  isSharing,           \* ScreenShare: useState isSharing
  stream,              \* ScreenShare: useState stream (NoStream = null)
  tracks,              \* environment: live video tracks with their listener
  nextStream,          \* next fresh stream id
  isGeneratingToken,   \* ScreenShare: useState isGeneratingToken
  agoraToken,          \* ScreenShare: useState agoraToken (FALSE = null)
  channelName,         \* ScreenShare: useState channelName (FALSE = null)
  shareError,          \* ScreenShare: useState error (FALSE = null)
  isUploadingScreenshot, \* ScreenShare: useState isUploadingScreenshot
  startOps,            \* startScreenShare calls in flight
  uploads,             \* screenshot onClick calls in flight
  sinceCapture,        \* environment: time since sharing started or since
                       \* the last capture attempt of the session
  event                \* what the last task did (console log / outgoing calls)

chatVars == <<messages, inputMessage, isLoading, conversationId, connectionStatus, error,
              chatReqs, nextId>>
autoplayVars == <<isAutoplayActive, isPlayingAudio, playedMessageIds, ttsOps>>
homeVars == <<isScreenShareRequested, isScreenSharing, activeTab,
              mobileMessages, listeners>>
shareVars == <<isSharing, stream, tracks, nextStream, isGeneratingToken,
               agoraToken, channelName, shareError, isUploadingScreenshot,
               startOps, uploads, sinceCapture>>
vars == <<chatVars, autoplayVars, homeVars, shareVars, event>>

\* kind: what happened; mid: the message it happened to; started: the
\* message whose synthesis the task requested (NoId: none).
Event(kind, mid, started) == [kind |-> kind, mid |-> mid, started |-> started]

RemoveAt(s, i) == SubSeq(s, 1, i - 1) \o SubSeq(s, i + 1, Len(s))

(***************************************************************************)
(* Autoplay queue (ChatWindow).                                            *)
(***************************************************************************)
\* Mutant of aiMessages: the sender filter is lost.
allMessages(msgs) == msgs

\* messages.filter(m => m.sender === 'ai')
aiMessages(msgs) == SelectSeq(msgs, LAMBDA m : m.sender = "ai")

\* Mutant of nextMessage: the latest unplayed message is taken first.
nextMessageLast(msgs, played) ==
  LET unplayed == SelectSeq(aiMessages(msgs), LAMBDA m : m.id \notin played)
  IN  IF unplayed = <<>> THEN NoMsg ELSE unplayed[Len(unplayed)]

\* aiMessages.find(m => !playedMessageIdsRef.current.has(m.id))
nextMessage(msgs, played) ==
  LET unplayed == SelectSeq(aiMessages(msgs), LAMBDA m : m.id \notin played)
  IN  IF unplayed = <<>> THEN NoMsg ELSE Head(unplayed)

\* aiMessages.some(m => !playedMessageIdsRef.current.has(m.id))
hasUnplayed(msgs, played) ==
  \E i \in 1..Len(aiMessages(msgs)) : aiMessages(msgs)[i].id \notin played

\* The closure of a render: the values playNextMessage reads from its scope.
Closure(msgs, active) == [messages |-> msgs, isAutoplayActive |-> active]

\* One playAIMessageTTS call in flight: the message, the closure of the
\* playNextMessage awaiting it, and how far it got.
TtsOp(m, cl, phase) == [msg |-> m, closure |-> cl, phase |-> phase]

\* The part of the state a task of the autoplay queue works on:
\* q.ops = ttsOps, q.playing = isPlayingAudio as last set, q.played =
\* playedMessageIds, q.started = id whose synthesis this task requested.
Queue(ops, playing, played) ==
  [ops |-> ops, playing |-> playing, played |-> played, started |-> NoId]

\* playAIMessageTTS up to its first await: setIsPlayingAudio(true), fetch.
playAIMessageTTS(m, cl, q) ==
  [q EXCEPT !.playing = TRUE,
            !.ops = @ (+) SetToBag({TtsOp(m, cl, "fetch")}),
            !.started = m.id]

\* playNextMessage up to its await, run in the closure cl.
playNextMessage(cl, q) ==
  IF ~cl.isAutoplayActive THEN q
  ELSE LET m == nextMessage(cl.messages, q.played)
       IN  IF m # NoMsg THEN playAIMessageTTS(m, cl, q)
           ELSE [q EXCEPT !.playing = FALSE]

\* playNextMessage after `await playAIMessageTTS(...)`:
\* if (isAutoplayActive) playNextMessage(), both read from the closure cl.
playNextMessageResume(cl, q) ==
  IF cl.isAutoplayActive THEN playNextMessage(cl, q) ELSE q

\* playAIMessageTTS's catch branch (fetch rejected or !res.ok).
ttsCatch(m, q) == [q EXCEPT !.playing = FALSE]

\* audio.onended / audio.onerror / audio.play() rejected.
audioDone(m, q) == [q EXCEPT !.played = @ \cup {m.id}, !.playing = FALSE]

\* useEffect(..., [isAutoplayActive, messages, isPlayingAudio]) body.
autoplayEffect(active, msgs, q) ==
  IF active /\ ~q.playing /\ hasUnplayed(msgs, q.played)
  THEN playNextMessage(Closure(msgs, active), q)
  ELSE q

\* Mutant of render: `messages` is missing from the effect's dependencies.
renderNoMessagesDep(active, msgs, msgsChanged, q) ==
  IF active # isAutoplayActive \/ q.playing # isPlayingAudio
  THEN autoplayEffect(active, msgs, q)
  ELSE q

\* The render that follows a task: the effect runs when one of its
\* dependencies differs from the previous render (setMessages always
\* installs a new array).  The effect's own setIsPlayingAudio(true) causes
\* one more render, whose effect finds isPlayingAudio true and does nothing.
render(active, msgs, msgsChanged, q) ==
  IF active # isAutoplayActive \/ msgsChanged \/ q.playing # isPlayingAudio
  THEN autoplayEffect(active, msgs, q)
  ELSE q

\* Install the outcome of a task of the autoplay queue.
Commit(q) ==
  /\ ttsOps' = q.ops
  /\ isPlayingAudio' = q.playing
  /\ playedMessageIds' = q.played

\* The greeting pre-mark effect of the mount: playedMessageIdsRef.add(1).
markGreetingPlayed == {GreetingId}

\* toggleAutoplay(!isAutoplayActive): the Autoplay / Stop Autoplay button.
toggleAutoplay ==
  LET enable == ~isAutoplayActive
      q0 == Queue(ttsOps, IF enable THEN isPlayingAudio ELSE FALSE,
                  playedMessageIds)
      q1 == render(enable, messages, FALSE, q0)
  IN  /\ isAutoplayActive' = enable
      /\ Commit(q1)
      /\ event' = Event(IF enable THEN "enable" ELSE "disable", NoId, q1.started)
      /\ UNCHANGED <<chatVars, homeVars, shareVars>>

\* fetch resolved with res.ok, blob read, audio.play() called.
ttsFetchOk(o) ==
  /\ o.phase = "fetch"
  /\ ttsOps' = (ttsOps (-) SetToBag({o}))
                  (+) SetToBag({TtsOp(o.msg, o.closure, "audio")})
  /\ event' = Event("audioStart", o.msg.id, NoId)
  /\ UNCHANGED <<chatVars, isAutoplayActive, isPlayingAudio, playedMessageIds,
                 homeVars, shareVars>>

\* fetch rejected or !res.ok: the catch branch, then the awaiting
\* playNextMessage resumes.  (The event tells a repeated failure apart.)
ttsFetchFail(o) ==
  LET q0 == ttsCatch(o.msg, Queue(ttsOps (-) SetToBag({o}), isPlayingAudio,
                                  playedMessageIds))
      q1 == playNextMessageResume(o.closure, q0)
      q2 == render(isAutoplayActive, messages, FALSE, q1)
  IN  /\ o.phase = "fetch"
      /\ Commit(q2)
      /\ event' = Event(IF event.kind = "ttsFail" THEN "ttsFailAgain"
                        ELSE "ttsFail", o.msg.id, q2.started)
      /\ UNCHANGED <<chatVars, isAutoplayActive, homeVars, shareVars>>

\* The audio ended, failed or could not start: the id joins
\* playedMessageIdsRef, setIsPlayingAudio(false), resolve(); then the
\* awaiting playNextMessage resumes.
audioSettled(o) ==
  LET q0 == audioDone(o.msg, Queue(ttsOps (-) SetToBag({o}), isPlayingAudio,
                                   playedMessageIds))
      q1 == playNextMessageResume(o.closure, q0)
      q2 == render(isAutoplayActive, messages, FALSE, q1)
  IN  /\ o.phase = "audio"
      /\ Commit(q2)
      /\ event' = Event("audioSettled", o.msg.id, q2.started)
      /\ UNCHANGED <<chatVars, isAutoplayActive, homeVars, shareVars>>

(***************************************************************************)
(* Home page flags.                                                        *)
(***************************************************************************)
\* Home renders two ChatWindows: one in the mobile view, mounted while
\* activeTab is 'chat', and one in the desktop view, always mounted.  Both
\* are in the document whatever the width of the window (the views are
\* hidden by CSS only); `messages` and the other ChatWindow variables are
\* those of the desktop one, which the user is taken to work with.  The
\* ScreenShare that takes the place of the mobile ChatWindow is not used.

\* Mutant of removeListener: the effect's cleanup removes nothing.
removeListenerNone(ls, w) == ls

\* window.removeEventListener('ai-message', handler), the effect's cleanup.
removeListener(ls, w) == SelectSeq(ls, LAMBDA x : x # w)

\* window.addEventListener('ai-message', handler), the mount effect.
addListener(ls, w) == Append(ls, w)

\* The order in which the mount effects of Home's first render run.
mountListeners == addListener(addListener(<<>>, "mobile"), "desktop")

\* The render of Home with activeTab = tab: the mobile ChatWindow is
\* unmounted (its state is lost, its listener removed) or mounted anew.
renderMobile(tab) ==
  IF tab = activeTab THEN UNCHANGED <<mobileMessages, listeners>>
  ELSE IF tab = "chat"
       THEN /\ mobileMessages' = <<Greeting>>
            /\ listeners' = addListener(listeners, "mobile")
       ELSE /\ mobileMessages' = <<>>
            /\ listeners' = removeListener(listeners, "mobile")

\* Mutant of onScreenShareRequest: the tab is left as it is.
onScreenShareRequestNoTab(requested) ==
  /\ isScreenShareRequested' = (isScreenShareRequested \/ requested)
  /\ UNCHANGED <<activeTab, mobileMessages, listeners, isScreenSharing>>

\* if (should_request_screen_share) onScreenShareRequest(), which is
\* Home.handleScreenShareRequest.
onScreenShareRequest(requested) ==
  /\ isScreenShareRequested' = (isScreenShareRequested \/ requested)
  /\ activeTab' = IF requested THEN "screen" ELSE activeTab
  /\ renderMobile(IF requested THEN "screen" ELSE activeTab)
  /\ UNCHANGED isScreenSharing

\* Home.handleScreenShareStop
handleScreenShareStop ==
  /\ isScreenSharing' = FALSE
  /\ isScreenShareRequested' = FALSE
  /\ activeTab' = "chat"
  /\ renderMobile("chat")

\* The Screen Share tab button: setActiveTab('screen').
showScreenTab ==
  /\ activeTab' = "screen"
  /\ renderMobile("screen")
  /\ event' = Event("screenTab", NoId, NoId)
  /\ UNCHANGED <<chatVars, autoplayVars, isScreenShareRequested,
                 isScreenSharing, shareVars>>

(***************************************************************************)
(* Message list (ChatWindow).                                              *)
(***************************************************************************)
\* The outcome for the autoplay queue of setMessages(msgs) and its render.
afterSetMessages(msgs) ==
  render(isAutoplayActive, msgs, TRUE,
         Queue(ttsOps, isPlayingAudio, playedMessageIds))

\* Mutant of spread: prev.push(m), the array is extended in place.
spreadInPlace(prev, m) == [list |-> Append(prev, m), prev |-> Append(prev, m)]

\* [...prev, m]: a new array with prev's items followed by m (list); the
\* array prev itself is left as it was (prev).
spread(prev, m) == [list |-> Append(prev, m), prev |-> prev]

\* The playNextMessage closures in flight that hold the array `old` as
\* their `messages` see what has become of that array.
held(ops, old, now) ==
  BagOfAll(LAMBDA o : IF o.closure.messages = old
                      THEN [o EXCEPT !.closure.messages = now] ELSE o, ops)

\* setMessages(prev => [...prev, m]) followed by the render it causes.
appendMessage(m) ==
  LET a == spread(messages, m)
  IN  /\ messages' = a.list
      /\ Commit(render(isAutoplayActive, a.list, TRUE,
                       Queue(held(ttsOps, messages, a.prev), isPlayingAudio,
                             playedMessageIds)))
      /\ UNCHANGED isAutoplayActive

\* One chatService.sendMessage call of ChatWindow in flight: the user
\* message it was made for, and the values its continuation reads from the
\* closure of the render of the send.
ChatReq(mid) == [mid |-> mid, conversationId |-> conversationId,
                 connectionStatus |-> connectionStatus]

\* What the task that settles a chat request did: the assistant message m
\* it appended, the branch taken, the request, and the
\* should_request_screen_share flag of the answer.
ReplyEvent(branch, m, req, share) ==
  [kind |-> "reply", mid |-> m.id,
   started |-> afterSetMessages(Append(messages, m)).started,
   branch |-> branch, req |-> req, share |-> share]

\* The textarea's onChange (the value has changed):
\* setInputMessage(e.target.value); the textarea is disabled while isLoading.
typeMessage(text) ==
  /\ ~isLoading
  /\ text # inputMessage
  /\ inputMessage' = text
  /\ event' = Event("type", NoId, NoId)
  /\ UNCHANGED <<messages, isLoading, conversationId, connectionStatus, error,
                 chatReqs, nextId, autoplayVars, homeVars, shareVars>>

\* sendMessage up to `await chatService.sendMessage(...)`; the send button
\* is disabled while isLoading or the input is blank, and the function
\* returns at once on a blank input.
sendMessage ==
  LET m == Msg(nextId, "user")
  IN  /\ ~isLoading
      /\ length(trim(inputMessage)) > 0
      /\ inputMessage' = EmptyText
      /\ appendMessage(m)
      /\ nextId' = nextId + 1
      /\ isLoading' = TRUE
      /\ error' = "none"
      /\ chatReqs' = Append(chatReqs, ChatReq(m.id))
      /\ event' = Event("send", m.id,
                        afterSetMessages(Append(messages, m)).started)
      /\ UNCHANGED <<conversationId, connectionStatus, homeVars, shareVars>>

\* Enter in the input box while it is blank: sendMessage returns at once
\* (`if (!inputMessage.trim()) return`).
sendBlank ==
  /\ ~isLoading
  /\ length(trim(inputMessage)) = 0
  /\ event' = Event("blank", NoId, NoId)
  /\ UNCHANGED <<chatVars, autoplayVars, homeVars, shareVars>>

\* Mutant of autoSend: the transcript is measured untrimmed.
autoSendUntrimmed(text) == length(text) > 0 /\ length(text) > MinTranscript

\* text && text.trim().length > 10
autoSend(text) == length(text) > 0 /\ length(trim(text)) > MinTranscript

\* SpeechInput's onTranscript(text).  A long transcript is sent at once,
\* whatever isLoading and the input box hold: the user message is appended
\* and chatService.sendMessage called, its `.then` / `.catch` doing what
\* sendMessage does after its await.  Any other transcript goes to the
\* input box.
onTranscript(text) ==
  LET m == Msg(nextId, "user")
  IN  IF autoSend(text)
      THEN /\ appendMessage(m)
           /\ nextId' = nextId + 1
           /\ isLoading' = TRUE
           /\ error' = "none"
           /\ chatReqs' = Append(chatReqs, ChatReq(m.id))
           /\ event' = [kind |-> "voiceSend", mid |-> m.id,
                        started |-> afterSetMessages(Append(messages, m)).started,
                        text |-> text]
           /\ UNCHANGED <<inputMessage, conversationId, connectionStatus,
                          homeVars, shareVars>>
      ELSE /\ inputMessage' = text
           /\ event' = [kind |-> "draft", mid |-> NoId, started |-> NoId,
                        text |-> text]
           /\ UNCHANGED <<messages, isLoading, conversationId,
                          connectionStatus, error, chatReqs, nextId,
                          autoplayVars, homeVars, shareVars>>

\* sendMessage after the await, response.success: data carries the
\* conversation id c and the should_request_screen_share flag.
sendMessageSuccess(i, c, share) ==
  LET cl == chatReqs[i]
      m == Msg(nextId, "ai")
  IN  /\ conversationId' = IF cl.conversationId = NoConv /\ c # NoConv
                           THEN c ELSE conversationId
      /\ appendMessage(m)
      /\ nextId' = nextId + 1
      /\ onScreenShareRequest(share)
      /\ connectionStatus' = IF cl.connectionStatus # "connected"
                             THEN "connected" ELSE connectionStatus
      /\ isLoading' = FALSE
      /\ chatReqs' = RemoveAt(chatReqs, i)
      /\ event' = ReplyEvent("success", m, cl, share)
      /\ UNCHANGED <<inputMessage, error, shareVars>>

\* Mutant of sendMessageFallback: the degraded mode is not shown.
sendMessageFallbackSilent(i, share) ==
  LET m == Msg(nextId, "ai")
  IN  /\ appendMessage(m)
      /\ nextId' = nextId + 1
      /\ onScreenShareRequest(share)
      /\ isLoading' = FALSE
      /\ chatReqs' = RemoveAt(chatReqs, i)
      /\ event' = ReplyEvent("fallback", m, chatReqs[i], share)
      /\ UNCHANGED <<inputMessage, conversationId, connectionStatus, error,
                     shareVars>>

\* sendMessage after the await, !response.success: the fallback response.
sendMessageFallback(i, share) ==
  LET m == Msg(nextId, "ai")
  IN  /\ appendMessage(m)
      /\ nextId' = nextId + 1
      /\ error' = "offline"
      /\ connectionStatus' = "offline"
      /\ onScreenShareRequest(share)
      /\ isLoading' = FALSE
      /\ chatReqs' = RemoveAt(chatReqs, i)
      /\ event' = ReplyEvent("fallback", m, chatReqs[i], share)
      /\ UNCHANGED <<inputMessage, conversationId, shareVars>>

\* Mutant of sendMessageCatch: the error is only logged.
sendMessageCatchLogOnly(i) ==
  /\ error' = "connection"
  /\ connectionStatus' = "offline"
  /\ isLoading' = FALSE
  /\ chatReqs' = RemoveAt(chatReqs, i)
  /\ event' = [kind |-> "reply", mid |-> NoId, started |-> NoId,
               branch |-> "catch", req |-> chatReqs[i], share |-> FALSE]
  /\ UNCHANGED <<messages, nextId, inputMessage, conversationId,
                 autoplayVars, homeVars, shareVars>>

\* sendMessage's catch branch: the response could not be processed.
sendMessageCatch(i) ==
  LET m == Msg(nextId, "ai")
  IN  /\ appendMessage(m)
      /\ nextId' = nextId + 1
      /\ error' = "connection"
      /\ connectionStatus' = "offline"
      /\ isLoading' = FALSE
      /\ chatReqs' = RemoveAt(chatReqs, i)
      /\ event' = ReplyEvent("catch", m, chatReqs[i], FALSE)
      /\ UNCHANGED <<inputMessage, conversationId, homeVars, shareVars>>

\* The 'ai-message' listener, registered by the mount effect (deps []), so
\* its closure holds the conversationId of the first render (null).  The
\* event carries the conversation id c and the message id `id`, which the
\* listener takes as it is (nextId: an id no message had before).
aiMessageHandler(c, id) ==
  LET mountConversationId == NoConv
  IN  /\ conversationId' = IF mountConversationId = NoConv /\ c # NoConv
                           THEN c ELSE conversationId
      /\ appendMessage(Msg(id, "ai"))

\* Mutant of deliveredTo: a listener that fails ends the dispatch.
deliveredUntilThrow(ls, fails) ==
  LET failing == {i \in 1..Len(ls) : ls[i] \in fails}
  IN  IF failing = {} THEN ls
      ELSE SubSeq(ls, 1, CHOOSE i \in failing : \A j \in failing : i <= j)

\* window.dispatchEvent(event): the listeners that are called, in the order
\* of their registration.  A listener whose body fails (fails: the windows
\* where it does) ends in its own catch branch; the others are called all
\* the same.
deliveredTo(ls, fails) == ls

\* How many times window w is in ls.
times(ls, w) == Cardinality({i \in 1..Len(ls) : ls[i] = w})

\* window.dispatchEvent(new CustomEvent('ai-message', {detail})), detail
\* carrying the conversation id c and the message id `id`.  A listener
\* that fails does so before it updates any state; the setMessages of a
\* listener whose window is no longer mounted does nothing.
aiMessageDispatch(kind, c, id, fails) ==
  LET ran == deliveredTo(listeners, fails)
      desktop == times(ran, "desktop") > 0 /\ "desktop" \notin fails
      copies == IF "mobile" \in fails \/ activeTab # "chat" THEN 0
                ELSE times(ran, "mobile")
  IN  /\ IF desktop THEN aiMessageHandler(c, id)
         ELSE UNCHANGED <<messages, conversationId, autoplayVars>>
      /\ mobileMessages' = mobileMessages \o [i \in 1..copies |-> Msg(id, "ai")]
      /\ nextId' = IF id = nextId THEN nextId + 1 ELSE nextId
      /\ event' = [kind |-> kind, mid |-> id,
                   started |-> IF desktop
                               THEN afterSetMessages(
                                      Append(messages, Msg(id, "ai"))).started
                               ELSE NoId,
                   delivered |-> ran, failed |-> fails]
      /\ UNCHANGED <<isScreenShareRequested, isScreenSharing, activeTab,
                     listeners>>

\* An 'ai-message' event dispatched by a sibling, all listeners working.
aiMessageEvent(c, id) ==
  /\ aiMessageDispatch("aiMessage", c, id, {})
  /\ UNCHANGED <<inputMessage, isLoading, connectionStatus, error, chatReqs,
                 shareVars>>

\* Mutant of loadConversation: the loaded messages are added to the list.
loadConversationMerge(k) ==
  LET msgs == messages \o SubSeq(StoredConversation, 1, k)
  IN  /\ conversationId' = StoredId
      /\ messages' = msgs
      /\ connectionStatus' = "connected"
      /\ error' = "none"
      /\ Commit(afterSetMessages(msgs))
      /\ event' = Event("load", NoId, afterSetMessages(msgs).started)
      /\ UNCHANGED <<inputMessage, isLoading, chatReqs, nextId,
                     isAutoplayActive, homeVars, shareVars>>

\* The Load button after chatService.getConversation resolved with the
\* first k messages of the stored conversation.
loadConversation(k) ==
  LET msgs == SubSeq(StoredConversation, 1, k)
  IN  /\ conversationId' = StoredId
      /\ messages' = msgs
      /\ connectionStatus' = "connected"
      /\ error' = "none"
      /\ Commit(afterSetMessages(msgs))
      /\ event' = Event("load", NoId, afterSetMessages(msgs).started)
      /\ UNCHANGED <<inputMessage, isLoading, chatReqs, nextId,
                     isAutoplayActive, homeVars, shareVars>>

(***************************************************************************)
(* ScreenShare component.                                                  *)
(***************************************************************************)
\* Mutant of stopScreenShareIn: a closure without a stream returns early.
stopScreenShareInGuarded(cs, ts) ==
  IF cs # NoStream
  THEN /\ tracks' = {t \in ts : t.id # cs}
       /\ stream' = NoStream
       /\ isSharing' = FALSE
       /\ agoraToken' = FALSE
       /\ channelName' = FALSE
       /\ handleScreenShareStop
  ELSE /\ tracks' = ts
       /\ UNCHANGED <<stream, isSharing, agoraToken, channelName, homeVars>>

\* stopScreenShare run in a closure whose `stream` is cs, the tracks still
\* live being ts.
stopScreenShareIn(cs, ts) ==
  /\ IF cs # NoStream
     THEN /\ tracks' = {t \in ts : t.id # cs}
          /\ stream' = NoStream
     ELSE /\ tracks' = ts
          /\ UNCHANGED stream
  /\ isSharing' = FALSE
  /\ agoraToken' = FALSE
  /\ channelName' = FALSE
  /\ handleScreenShareStop

\* "Share My Screen": startScreenShare up to `await generateToken`.
startScreenShare ==
  /\ isScreenShareRequested /\ ~isSharing /\ ~isGeneratingToken
  /\ shareError' = FALSE
  /\ isGeneratingToken' = TRUE
  /\ channelName' = TRUE
  /\ startOps' = Append(startOps, [phase |-> "token", stream |-> stream])
  /\ event' = Event("startShare", NoId, NoId)
  /\ UNCHANGED <<chatVars, autoplayVars, homeVars, isSharing, stream, tracks,
                 nextStream, sinceCapture, agoraToken, isUploadingScreenshot,
                 uploads>>

\* tokenResponse.success: setAgoraToken, setIsGeneratingToken(false), then
\* `await getDisplayMedia`.
startTokenOk(i) ==
  /\ startOps[i].phase = "token"
  /\ agoraToken' = TRUE
  /\ isGeneratingToken' = FALSE
  /\ startOps' = [startOps EXCEPT ![i].phase = "media"]
  /\ event' = Event("tokenOk", NoId, NoId)
  /\ UNCHANGED <<chatVars, autoplayVars, homeVars, isSharing, stream, tracks,
                 nextStream, sinceCapture, channelName, shareError,
                 isUploadingScreenshot, uploads>>

\* Mutant of startFailed: the catch branch leaves isGeneratingToken alone.
startFailedKeepsFlag(i) ==
  /\ shareError' = TRUE
  /\ startOps' = RemoveAt(startOps, i)
  /\ event' = [kind |-> "startFailed", mid |-> NoId, started |-> NoId,
               phase |-> startOps[i].phase]
  /\ UNCHANGED <<chatVars, autoplayVars, homeVars, isSharing, stream, tracks,
                 nextStream, sinceCapture, isGeneratingToken, agoraToken,
                 channelName, isUploadingScreenshot, uploads>>

\* !tokenResponse.success, or getDisplayMedia rejected: the catch branch.
startFailed(i) ==
  /\ shareError' = TRUE
  /\ isGeneratingToken' = FALSE
  /\ startOps' = RemoveAt(startOps, i)
  /\ event' = [kind |-> "startFailed", mid |-> NoId, started |-> NoId,
               phase |-> startOps[i].phase]
  /\ UNCHANGED <<chatVars, autoplayVars, homeVars, isSharing, stream, tracks,
                 nextStream, sinceCapture, agoraToken, channelName,
                 isUploadingScreenshot, uploads>>

\* getDisplayMedia resolved: setStream, setIsSharing(true), the 'ended'
\* listener (a closure of the render of the click), onStart().
startMediaOk(i) ==
  /\ startOps[i].phase = "media"
  /\ stream' = nextStream
  /\ isSharing' = TRUE
  /\ tracks' = tracks \cup {[id |-> nextStream, stream |-> startOps[i].stream]}
  /\ nextStream' = nextStream + 1
  /\ sinceCapture' = 0
  /\ isScreenSharing' = TRUE
  /\ startOps' = RemoveAt(startOps, i)
  /\ event' = Event("shareStarted", NoId, NoId)
  /\ UNCHANGED <<chatVars, autoplayVars, isScreenShareRequested, activeTab,
                 mobileMessages, listeners, isGeneratingToken, agoraToken,
                 channelName, shareError, isUploadingScreenshot, uploads>>

\* "Stop Sharing": stopScreenShare of the current render.
stopScreenShare ==
  /\ isScreenShareRequested /\ isSharing
  /\ stopScreenShareIn(stream, tracks)
  /\ event' = Event("stopShare", NoId, NoId)
  /\ UNCHANGED <<chatVars, autoplayVars, nextStream, sinceCapture,
                 isGeneratingToken,
                 shareError, isUploadingScreenshot, startOps, uploads>>

\* The browser's own stop control ends track t: its 'ended' listener runs
\* the stopScreenShare of the render in which sharing was started.
trackEnded(t) ==
  /\ t \in tracks
  /\ stopScreenShareIn(t.stream, tracks \ {t})
  /\ event' = Event("trackEnded", NoId, NoId)
  /\ UNCHANGED <<chatVars, autoplayVars, nextStream, sinceCapture,
                 isGeneratingToken,
                 shareError, isUploadingScreenshot, startOps, uploads>>

\* Mutant of sendScreenshot: the button is not disabled while uploading.
sendScreenshotAlways ==
  /\ isScreenShareRequested /\ isSharing
  /\ isUploadingScreenshot' = TRUE
  /\ uploads' = Append(uploads, [phase |-> "upload", ocr |-> NoText, body |-> NoText])
  /\ sinceCapture' = 0
  /\ event' = Event("capture", NoId, NoId)
  /\ UNCHANGED <<chatVars, autoplayVars, homeVars, isSharing, stream, tracks,
                 nextStream, isGeneratingToken, agoraToken, channelName,
                 shareError, startOps>>

\* "Send Screenshot" while the button is enabled: capture a frame and
\* start the upload.
sendScreenshot ==
  /\ isScreenShareRequested /\ isSharing
  /\ ~isUploadingScreenshot
  /\ isUploadingScreenshot' = TRUE
  /\ uploads' = Append(uploads, [phase |-> "upload", ocr |-> NoText, body |-> NoText])
  /\ sinceCapture' = 0
  /\ event' = Event("capture", NoId, NoId)
  /\ UNCHANGED <<chatVars, autoplayVars, homeVars, isSharing, stream, tracks,
                 nextStream, isGeneratingToken, agoraToken, channelName,
                 shareError, startOps>>

\* One time unit passes while the screen is shared.  The component starts
\* no timer (no setInterval or setTimeout), so no task of it runs.
tick ==
  /\ isSharing
  /\ sinceCapture' = sinceCapture + 1
  /\ event' = Event("tick", NoId, NoId)
  /\ UNCHANGED <<chatVars, autoplayVars, homeVars, isSharing, stream, tracks,
                 nextStream, isGeneratingToken, agoraToken, channelName,
                 shareError, isUploadingScreenshot, startOps, uploads>>

\* "Send Screenshot" while disabled={isUploadingScreenshot}: no handler runs.
sendScreenshotDisabled ==
  /\ isScreenShareRequested /\ isSharing
  /\ isUploadingScreenshot
  /\ event' = Event("captureDropped", NoId, NoId)
  /\ UNCHANGED <<chatVars, autoplayVars, homeVars, shareVars>>

\* Mutant of screenshotMessage: any ocr_text the answer has is used.
screenshotMessageDefined(ocr) ==
  IF ocr # NoText THEN [kind |-> "ocr", text |-> ocr]
  ELSE [kind |-> "url", text |-> EmptyText]

\* const ocrText = data.ocr_text || ''
\* const message = ocrText ? `...Extracted text:\n\n${ocrText}`
\*                         : `User sent a screenshot: ${origin + data.url}`
screenshotMessage(ocr) ==
  IF length(ocr) > 0 THEN [kind |-> "ocr", text |-> ocr]
  ELSE [kind |-> "url", text |-> EmptyText]

\* Upload answered data.success with ocr_text = ocr:
\* chatService.sendMessage(message, null, 'demo-user').
uploadOk(i, ocr) ==
  /\ uploads[i].phase = "upload"
  /\ uploads' = [uploads EXCEPT ![i] =
                   [phase |-> "chat", ocr |-> ocr,
                    body |-> screenshotMessage(ocr)]]
  /\ event' = Event(IF screenshotMessage(ocr).kind = "ocr"
                    THEN "submitOcr" ELSE "submitUrl", NoId, NoId)
  /\ UNCHANGED <<chatVars, autoplayVars, homeVars, isSharing, stream, tracks,
                 nextStream, sinceCapture, isGeneratingToken, agoraToken,
                 channelName,
                 shareError, isUploadingScreenshot, startOps>>

\* Mutant of uploadFailed: the `finally` that clears the flag is missing.
uploadFailedNoFinally(i) ==
  /\ uploads[i].phase = "upload"
  /\ uploads' = RemoveAt(uploads, i)
  /\ event' = Event("uploadFailed", NoId, NoId)
  /\ UNCHANGED <<chatVars, autoplayVars, homeVars, isSharing, stream, tracks,
                 nextStream, sinceCapture, isGeneratingToken, agoraToken,
                 channelName, shareError, isUploadingScreenshot, startOps>>

\* The capture or the upload failed (drawImage or fetch threw, the answer
\* was no JSON, or !data.success): alert, then `finally`.
uploadFailed(i) ==
  /\ uploads[i].phase = "upload"
  /\ isUploadingScreenshot' = FALSE
  /\ uploads' = RemoveAt(uploads, i)
  /\ event' = Event("uploadFailed", NoId, NoId)
  /\ UNCHANGED <<chatVars, autoplayVars, homeVars, isSharing, stream, tracks,
                 nextStream, sinceCapture, isGeneratingToken, agoraToken,
                 channelName, shareError, startOps>>

\* chatService.sendMessage resolved (c = conversation id of a successful
\* answer, NoConv for the offline payload): dispatch 'ai-message', finally.
screenshotPublish(i, c, fails) ==
  /\ uploads[i].phase = "chat"
  /\ aiMessageDispatch("publish", c, nextId, fails)
  /\ isUploadingScreenshot' = FALSE
  /\ uploads' = RemoveAt(uploads, i)
  /\ UNCHANGED <<inputMessage, isLoading, connectionStatus, error, chatReqs,
                 isSharing, stream, tracks, nextStream, sinceCapture,
                 isGeneratingToken,
                 agoraToken, channelName, shareError, startOps>>

(***************************************************************************)
(* Services (chatService, agoraService) and the HTTP client.               *)
(***************************************************************************)
\* What becomes of a request of apiClient: answered with a 2xx status;
\* answered with an error status and a body; answered with an error status
\* and a body that is null; not answered; never sent.
Outcomes == {"ok", "status", "nullBody", "network", "setup"}

\* A promise that is fulfilled with a value, or rejected with an Error.
Fulfilled(value) == [settled |-> "fulfilled", value |-> value]
Rejected(name, message) ==
  [settled |-> "rejected", error |-> [name |-> name, message |-> message]]

\* The response interceptor of apiClient: a response is passed on; an
\* error becomes an APIError whose message is taken from the body
\* (`data.detail || data.message || ...`, which throws a TypeError on a
\* null body), or tells that the server was not reached, or is the
\* error's own.
interceptor(outcome) ==
  CASE outcome = "ok" -> Fulfilled([data |-> "data"])
    [] outcome = "status" -> Rejected("APIError", "detail")
    [] outcome = "nullBody" -> Rejected("TypeError", "null has no properties")
    [] outcome = "network" -> Rejected("APIError", "Unable to connect to server")
    [] OTHER -> Rejected("APIError", "error.message")

\* ChatService.getFallbackResponse(userMessage), needsScreenShare telling
\* whether the message holds one of the trigger words.
getFallbackResponse(needsScreenShare) ==
  [message |-> [role |-> "assistant", fallback |-> TRUE],
   should_request_screen_share |-> needsScreenShare]

\* The request methods: five of ChatService, one of AgoraService.
Methods == {"sendMessage", "getConversation", "switchAIProvider",
            "getCurrentProvider", "checkHealth", "generateToken"}

\* Mutant of serviceCall: getConversation has no catch.
serviceCallUncaught(method, outcome, needsScreenShare) ==
  LET response == interceptor(outcome)
  IN  IF response.settled = "fulfilled"
      THEN Fulfilled([success |-> TRUE, data |-> response.value.data])
      ELSE IF method = "sendMessage"
      THEN Fulfilled([success |-> FALSE, error |-> response.error.message,
                      fallback |-> getFallbackResponse(needsScreenShare)])
      ELSE IF method = "getConversation" THEN response
      ELSE Fulfilled([success |-> FALSE, error |-> response.error.message])

\* A request method, each of the same shape:
\*   try { const response = await apiClient...;
\*         return { success: true, data: response.data } }
\*   catch (error) { return { success: false, error: error.message } }
\* with `fallback: this.getFallbackResponse(message)` added by sendMessage.
serviceCall(method, outcome, needsScreenShare) ==
  LET response == interceptor(outcome)
  IN  IF response.settled = "fulfilled"
      THEN Fulfilled([success |-> TRUE, data |-> response.value.data])
      ELSE IF method = "sendMessage"
      THEN Fulfilled([success |-> FALSE, error |-> response.error.message,
                      fallback |-> getFallbackResponse(needsScreenShare)])
      ELSE Fulfilled([success |-> FALSE, error |-> response.error.message])

\* A request method is called and its promise settles; what the caller
\* does with the result is the caller's own action.
request(method, outcome, needsScreenShare) ==
  /\ event' = [kind |-> "call", mid |-> NoId, started |-> NoId,
               method |-> method, outcome |-> outcome,
               promise |-> serviceCall(method, outcome, needsScreenShare)]
  /\ UNCHANGED <<chatVars, autoplayVars, homeVars, shareVars>>

(***************************************************************************)
(* Specifications.                                                         *)
(***************************************************************************)
\* The state after the mount of Home, ChatWindow and ScreenShare (the
\* mount's health check, which only sets connectionStatus, is left pending).
Init ==
  /\ messages = <<Greeting>>
  /\ inputMessage = EmptyText
  /\ isLoading = FALSE
  /\ conversationId = NoConv
  /\ connectionStatus = "checking"
  /\ error = "none"
  /\ isAutoplayActive = FALSE
  /\ isPlayingAudio = FALSE
  /\ playedMessageIds = markGreetingPlayed
  /\ ttsOps = EmptyBag
  /\ chatReqs = <<>>
  /\ nextId = GreetingId + 1
  /\ isScreenShareRequested = FALSE
  /\ isScreenSharing = FALSE
  /\ activeTab = "chat"
  /\ mobileMessages = <<Greeting>>
  /\ listeners = mountListeners
  /\ isSharing = FALSE
  /\ stream = NoStream
  /\ tracks = {}
  /\ nextStream = 1
  /\ isGeneratingToken = FALSE
  /\ agoraToken = FALSE
  /\ channelName = FALSE
  /\ shareError = FALSE
  /\ isUploadingScreenshot = FALSE
  /\ startOps = <<>>
  /\ uploads = <<>>
  /\ sinceCapture = 0
  /\ event = Event("mount", NoId, NoId)

\* Bounds: ids still free below the cap, counting the answers outstanding
\* (each will take one), and room for one more text-to-speech operation.
IdsLeft(cap) == cap + 1 - nextId - Len(chatReqs) - Len(uploads)
OpsLeft == BagCardinality(ttsOps) < MaxOps

\* The chat window with its autoplay queue; 'ai-message' events arrive from
\* the environment, chat answers do not ask for a screen share, a load
\* returns the whole stored conversation, and the user types only while
\* ids are left for the message and its answer.
Next ==
  \/ IdsLeft(MaxId) >= 2 /\ typeMessage(Text(0, 1, 0))
  \/ IdsLeft(MaxId) >= 2 /\ OpsLeft /\ sendMessage
  \/ \E i \in 1..Len(chatReqs), c \in ConvIds :
       OpsLeft /\ sendMessageSuccess(i, c, FALSE)
  \/ \E i \in 1..Len(chatReqs) : OpsLeft /\ sendMessageFallback(i, FALSE)
  \/ \E c \in ConvIds \cup {NoConv} :
       IdsLeft(MaxId) >= 1 /\ OpsLeft /\ aiMessageEvent(c, nextId)
  \/ \E k \in {Len(StoredConversation)} : OpsLeft /\ loadConversation(k)
  \/ OpsLeft /\ toggleAutoplay
  \/ \E o \in BagToSet(ttsOps) : ttsFetchOk(o)
  \/ \E o \in BagToSet(ttsOps) : ttsFetchFail(o)
  \/ \E o \in BagToSet(ttsOps) : audioSettled(o)

Spec == Init /\ [][Next]_vars

\* Every text-to-speech operation in flight eventually settles, one way or
\* the other: the browser answers every fetch and ends every audio.
ttsSettle == \E o \in BagToSet(ttsOps) : ttsFetchOk(o) \/ ttsFetchFail(o)
audioSettle == \E o \in BagToSet(ttsOps) : audioSettled(o)
FairSpec == Spec /\ WF_vars(ttsSettle) /\ WF_vars(audioSettle)

\* The ocr_text of an upload answer: missing, empty, white space, a word.
OcrTexts == {NoText, EmptyText, Text(1, 0, 0), Text(0, 1, 0)}

\* The chat window (autoplay off) with the screen-share panel.
ShareNext ==
  \/ typeMessage(Text(0, 1, 0))
  \/ IdsLeft(MaxShareId) >= 2 /\ sendMessage
  \/ \E i \in 1..Len(chatReqs), c \in ConvIds, share \in BOOLEAN :
       sendMessageSuccess(i, c, share)
  \/ \E i \in 1..Len(chatReqs), share \in BOOLEAN : sendMessageFallback(i, share)
  \/ \E i \in 1..Len(chatReqs) : sendMessageCatch(i)
  \/ Len(startOps) < MaxStarts /\ nextStream <= MaxStreams /\ startScreenShare
  \/ \E i \in 1..Len(startOps) : startTokenOk(i)
  \/ \E i \in 1..Len(startOps) : startFailed(i)
  \/ \E i \in 1..Len(startOps) : startMediaOk(i)
  \/ stopScreenShare
  \/ \E t \in tracks : trackEnded(t)
  \/ Len(uploads) < MaxUploads /\ IdsLeft(MaxShareId) >= 1 /\ sendScreenshot
  \/ sendScreenshotDisabled
  \/ \E i \in 1..Len(uploads), ocr \in OcrTexts : uploadOk(i, ocr)
  \/ \E i \in 1..Len(uploads) : uploadFailed(i)
  \/ \E i \in 1..Len(uploads), c \in ConvIds \cup {NewConv, NoConv},
          fails \in SUBSET {"mobile", "desktop"} :
       screenshotPublish(i, c, fails)
  \/ showScreenTab

ShareSpec == Init /\ [][ShareNext]_vars

\* The screen-share panel with the passing of time.
ClockNext ==
  \/ ShareNext
  \/ sinceCapture < MaxTime /\ tick

ClockSpec == Init /\ [][ClockNext]_vars

\* The screen-share panel with starts that overlap: Share My Screen is
\* enabled again as soon as the token has arrived, while the capture
\* permission of the earlier click is still pending.
HomeNext ==
  \/ ShareNext
  \/ /\ Len(startOps) < MaxHomeStarts /\ nextStream <= MaxStreams
     /\ startScreenShare

HomeSpec == Init /\ [][HomeNext]_vars

\* The transcripts SpeechInput may hand over: blank, at the threshold and
\* above it, with and without white space around.
Transcripts ==
  {Text(lead, core, trail) :
     lead \in {0, MaxPad}, trail \in {0, MaxPad},
     core \in {0, MinTranscript, MinTranscript + 1}}

\* The chat window (autoplay off) with typed and spoken input and with
\* 'ai-message' events whose message id may be one the list already holds.
StoreNext ==
  \/ typeMessage(Text(0, 1, 0))
  \/ IdsLeft(MaxStoreId) >= 2 /\ sendMessage
  \/ \E text \in Transcripts :
       (autoSend(text) => IdsLeft(MaxStoreId) >= 2) /\ onTranscript(text)
  \/ \E i \in 1..Len(chatReqs), c \in ConvIds : sendMessageSuccess(i, c, FALSE)
  \/ \E i \in 1..Len(chatReqs) : sendMessageFallback(i, FALSE)
  \/ \E i \in 1..Len(chatReqs) : sendMessageCatch(i)
  \/ \E c \in ConvIds \cup {NoConv} :
       IdsLeft(MaxStoreId) >= 1 /\ aiMessageEvent(c, nextId)
  \/ \E c \in ConvIds \cup {NoConv}, id \in Ids(messages) :
       /\ Len(messages) < MaxStoreLen /\ Len(mobileMessages) < MaxStoreLen
       /\ aiMessageEvent(c, id)

StoreSpec == Init /\ [][StoreNext]_vars

\* What the user types: a word, or white space only.
Typed == {Text(0, 1, 0), Text(1, 0, 0)}

\* The chat window (autoplay off) with typed and spoken sends, which may
\* overlap, and conversation loads.
SendNext ==
  \/ \E text \in Typed : IdsLeft(MaxSendId) >= 2 /\ typeMessage(text)
  \/ IdsLeft(MaxSendId) >= 2 /\ sendMessage
  \/ sendBlank
  \/ \E text \in Transcripts :
       /\ autoSend(text) => IdsLeft(MaxSendId) >= 2
       /\ ~autoSend(text) => text \in Typed
       /\ onTranscript(text)
  \/ \E i \in 1..Len(chatReqs), c \in ConvIds : sendMessageSuccess(i, c, FALSE)
  \/ \E i \in 1..Len(chatReqs) : sendMessageFallback(i, FALSE)
  \/ \E i \in 1..Len(chatReqs) : sendMessageCatch(i)
  \/ \E k \in {Len(StoredConversation)} : loadConversation(k)

SendSpec == Init /\ [][SendNext]_vars

\* The chat window of SendSpec, with the calls of the request methods and
\* every outcome of their HTTP request.
ServiceNext ==
  \/ SendNext
  \/ \E method \in Methods, outcome \in Outcomes, needsScreenShare \in BOOLEAN :
       request(method, outcome, needsScreenShare)

ServiceSpec == Init /\ [][ServiceNext]_vars

(***************************************************************************)
(* Properties.                                                             *)
(***************************************************************************)
AiIds(msgs) == {msgs[i].id : i \in {j \in 1..Len(msgs) : msgs[j].sender = "ai"}}
InFlight == BagToSet(ttsOps)
AppendedAi == event.kind \in {"aiMessage", "reply", "publish"}

\* C1: autoplay narrates in list order.  Whenever synthesis is requested
\* for a message of the list, every assistant message before it in the
\* list has been marked played, and only assistant messages are in flight
\* (user messages are skipped).
C1_FifoOrder ==
  /\ \A o \in InFlight : o.msg.sender = "ai"
  /\ event.started # NoId =>
       \A j \in 1..Len(messages) :
         messages[j].id = event.started =>
           \A i \in 1..(j - 1) :
             messages[i].sender = "ai" => messages[i].id \in playedMessageIds

\* C1 witness: M1 (assistant) has been played, M2 is a user message, and
\* synthesis of M3 (assistant) has just been requested.
C1_Witness ==
  /\ isAutoplayActive
  /\ event.started # NoId
  /\ \E i, j, k \in 1..Len(messages) :
       /\ i < j /\ j < k
       /\ messages[i].sender = "ai" /\ messages[i].id # GreetingId
       /\ messages[i].id \in playedMessageIds
       /\ messages[j].sender = "user"
       /\ messages[k].id = event.started

\* C2: playedMessageIds only grows, and neither synthesis nor playback is
\* started for an id that is already in playedMessageIds.
C2_PlayedOnce ==
  [][/\ playedMessageIds \subseteq playedMessageIds'
     /\ event'.started # NoId => event'.started \notin playedMessageIds'
     /\ event'.kind = "audioStart" => event'.mid \notin playedMessageIds']_vars

\* C3: a failed synthesis still marks its message played and the queue
\* moves on to another message or goes idle.
C3_FailureAdvances ==
  event.kind \in {"ttsFail", "ttsFailAgain"} =>
    /\ event.mid \in playedMessageIds
    /\ event.started # event.mid

\* C4: while autoplay is disabled no task requests a synthesis.
C4_NoStartWhileDisabled == ~isAutoplayActive => event.started = NoId

\* C5: at most one synthesis+playback operation is outstanding.
C5_OneOutstanding == BagCardinality(ttsOps) <= 1

\* C6: enabling autoplay with no eligible message requests no synthesis;
\* an assistant message appended to an idle, enabled queue whose other
\* messages are all played is requested at once, in the task of its arrival.
C6_IdleThenArrival ==
  /\ (event.kind = "enable" /\ ~hasUnplayed(messages, playedMessageIds))
       => event.started = NoId
  /\ ( /\ AppendedAi
       /\ isAutoplayActive
       /\ \A o \in InFlight : o.msg.id = event.mid
       /\ AiIds(messages) \ {event.mid} \subseteq playedMessageIds )
       => event.started = event.mid

\* C6 witness: autoplay was enabled with only the greeting in the list, then
\* an assistant message arrived and its synthesis was requested.
C6_Witness ==
  /\ isAutoplayActive
  /\ event.kind = "aiMessage"
  /\ messages = <<Greeting, Msg(event.mid, "ai")>>
  /\ event.started = event.mid
  /\ BagCardinality(ttsOps) = 1

\* C7: only assistant messages that are not in playedMessageIds are
\* synthesized, and the greeting, played from the start, never is.
C7_OnlyEligible ==
  /\ GreetingId \in playedMessageIds
  /\ \A o \in InFlight : o.msg.sender = "ai" /\ o.msg.id # GreetingId
  /\ event.started # NoId => event.started \notin playedMessageIds

\* C7 witness: the list holds the greeting and a user message, and an
\* assistant message is being synthesized.
C7_Witness ==
  /\ messages[1] = Greeting
  /\ \E i \in 1..Len(messages) : messages[i].sender = "user"
  /\ event.started # NoId
  /\ InFlight # {}

\* C8: while autoplay stays enabled and every operation settles, every
\* assistant message of the list is eventually played.
C8_EventuallyPlayed ==
  \A id \in 2..MaxId :
    (isAutoplayActive /\ id \in AiIds(messages))
      ~> (id \in playedMessageIds \/ ~isAutoplayActive
            \/ id \notin AiIds(messages))

\* C9: at most one screenshot capture+upload is in flight, and the button
\* stays disabled for as long as it is.
C9_OneUpload ==
  /\ Len(uploads) <= 1
  /\ uploads # <<>> => isUploadingScreenshot

\* C9 witness: a capture was asked for while one was pending, and dropped.
C9_Witness == event.kind = "captureDropped" /\ Len(uploads) = 1

\* C10: nothing is published once the sharing session is stopped.
C10_DiscardAfterStop == event.kind = "publish" => isSharing

\* C11: while the screen is shared a capture attempt is made at least every
\* CapturePeriod time units, counted from the start of the session, and no
\* capture attempt is made once the session is stopped.
C11_PeriodicCapture ==
  /\ isSharing => sinceCapture <= CapturePeriod
  /\ event.kind = "capture" => isSharing

\* C12: a failed capture or upload stays local.  The task that handles the
\* failure leaves the session as it was (isSharing, the stream and Home's
\* isScreenSharing), clears the in-flight guard, and leaves the Send
\* Screenshot button of a session that is still shared enabled.
C12_FailureIsLocal ==
  [][event'.kind = "uploadFailed" =>
       /\ isSharing' = isSharing
       /\ stream' = stream
       /\ isScreenSharing' = isScreenSharing
       /\ uploads' = <<>>
       /\ ~isUploadingScreenshot']_vars

\* C12 witness: an upload has just failed in a live session, and the Send
\* Screenshot button is enabled again.
C12_Witness ==
  /\ event.kind = "uploadFailed"
  /\ isScreenShareRequested /\ isSharing /\ stream # NoStream
  /\ ~isUploadingScreenshot

\* C13: the end of the captured track stops the session as the Stop Sharing
\* button does: ScreenShare is not sharing, token and channel are dropped,
\* and Home has been told (onStop: both flags reset, chat tab shown).
C13_EndOfStreamStops ==
  event.kind \in {"trackEnded", "stopShare"} =>
    /\ ~isSharing
    /\ agoraToken = FALSE /\ channelName = FALSE
    /\ ~isScreenSharing /\ ~isScreenShareRequested
    /\ activeTab = "chat"

\* C13 witness: the track of a started session has just ended.
C13_Witness ==
  /\ event.kind = "trackEnded"
  /\ nextStream > 1
  /\ ~isSharing /\ ~isScreenSharing

\* C14: the list keeps insertion order and snapshots stay as they were.  A
\* task other than a conversation load leaves the list as it was or adds
\* one message at its end; and the list a playNextMessage closure holds is
\* one that was held before the task, or the current list when the task
\* started that operation.
C14_InsertionOrder ==
  [][/\ event'.kind # "load" =>
          /\ Len(messages') \in {Len(messages), Len(messages) + 1}
          /\ SubSeq(messages', 1, Len(messages)) = messages
     /\ \A o \in BagToSet(ttsOps') :
          \/ \E p \in BagToSet(ttsOps) : p.closure = o.closure
          \/ /\ o.phase = "fetch"
             /\ o.msg.id = event'.started
             /\ o.closure.messages = messages']_vars

\* C14 witness: a message was appended while a synthesis holding the
\* earlier list was in flight; its snapshot lacks the new message.
C14_Witness ==
  /\ AppendedAi
  /\ Len(messages) >= 3
  /\ messages[Len(messages)].id = event.mid
  /\ \E o \in InFlight :
       /\ o.msg.id # event.mid
       /\ o.closure.messages = SubSeq(messages, 1, Len(messages) - 1)

\* C19: a transcript is sent by itself exactly when its trimmed length
\* exceeds MinTranscript.  The task of such a transcript appends its user
\* message and issues one chat request; the task of any other transcript
\* only puts it in the input box: no message, no request.
C19_TranscriptThreshold ==
  [][/\ event'.kind = "voiceSend" =>
          /\ length(trim(event'.text)) > MinTranscript
          /\ messages' = Append(messages, Msg(event'.mid, "user"))
          /\ Len(chatReqs') = Len(chatReqs) + 1
     /\ event'.kind = "draft" =>
          /\ length(trim(event'.text)) <= MinTranscript
          /\ inputMessage' = event'.text
          /\ messages' = messages
          /\ chatReqs' = chatReqs]_vars

\* C19 witness: a transcript of more than MinTranscript characters whose
\* trimmed length is exactly MinTranscript has become a draft.
C19_Witness ==
  /\ event.kind = "draft"
  /\ length(event.text) > MinTranscript
  /\ length(trim(event.text)) = MinTranscript
  /\ inputMessage = event.text

\* C15: the ids of the messages in the list are pairwise distinct: an
\* append of an id the list already holds is rejected.
C15_DistinctIds ==
  \A i, j \in 1..Len(messages) : i # j => messages[i].id # messages[j].id

\* C16: a conversation load replaces the list in one step.  Right after it
\* the list is exactly the loaded messages, in their order, with nothing of
\* the earlier list; and the autoplay effect of that render, the first
\* reader, works on that whole list.
C16_LoadAtomic ==
  event.kind = "load" =>
    /\ \E k \in 1..Len(StoredConversation) :
         messages = SubSeq(StoredConversation, 1, k)
    /\ event.started # NoId =>
         \E o \in InFlight :
           /\ o.phase = "fetch" /\ o.msg.id = event.started
           /\ o.closure.messages = messages

\* C16 witness: messages had been exchanged, then a conversation was loaded
\* and autoplay began to read it.
C16_Witness ==
  /\ event.kind = "load"
  /\ nextId > GreetingId + 1
  /\ event.started \in Ids(StoredConversation)
  /\ messages = StoredConversation

\* C20: the message sent to the chat service after a successful upload is
\* the extracted text when the answer carries one, and the reference to the
\* uploaded image when ocr_text is missing or empty; after a failed upload
\* no chat request is pending and nothing has been published.
C20_OcrBody ==
  /\ \A i \in 1..Len(uploads) :
       uploads[i].phase = "chat" =>
         IF uploads[i].ocr \in {NoText, EmptyText}
         THEN uploads[i].body.kind = "url"
         ELSE uploads[i].body = [kind |-> "ocr", text |-> uploads[i].ocr]
  /\ event.kind \in {"submitOcr", "submitUrl"} =>
       \E i \in 1..Len(uploads) :
         /\ uploads[i].phase = "chat"
         /\ (event.kind = "submitOcr") = (uploads[i].body.kind = "ocr")
  /\ event.kind = "uploadFailed" =>
       \A i \in 1..Len(uploads) : uploads[i].phase # "chat"

\* C20 witness: an upload answered with an empty ocr_text, and the message
\* on its way to the chat service refers to the image.
C20_Witness ==
  /\ event.kind = "submitUrl"
  /\ \E i \in 1..Len(uploads) :
       /\ uploads[i].phase = "chat"
       /\ uploads[i].ocr = EmptyText
       /\ uploads[i].body.kind = "url"

\* The windows whose ChatWindow is mounted.
Mounted == {"desktop"} \cup (IF activeTab = "chat" THEN {"mobile"} ELSE {})
Range(ls) == {ls[i] : i \in 1..Len(ls)}
Last(msgs) == msgs[Len(msgs)]

\* C17: a listener that fails keeps no other listener from the same
\* 'ai-message' event, and the publisher is not told.  After a publish
\* every registered listener has been called; each ChatWindow whose
\* listener did not fail shows the message as its last one; and the
\* screenshot task has run to its end (flag cleared, nothing pending).
C17_ListenerIsolation ==
  event.kind = "publish" =>
    /\ Range(event.delivered) = Range(listeners)
    /\ "desktop" \notin event.failed => Last(messages).id = event.mid
    /\ ("mobile" \in Mounted \ event.failed)
         => Last(mobileMessages).id = event.mid
    /\ ~isUploadingScreenshot /\ uploads = <<>>

\* C17 witness: the first listener called failed, and the ChatWindow of
\* the second shows the message.
C17_Witness ==
  /\ event.kind = "publish"
  /\ Len(event.delivered) = 2
  /\ event.failed = {event.delivered[1]}
  /\ event.delivered = <<"desktop", "mobile">>
  /\ Last(messages).id # event.mid
  /\ Last(mobileMessages).id = event.mid

\* C18: an 'ai-message' event reaches, in its own task and in the order of
\* registration, the listeners of the ChatWindows mounted at that moment,
\* each once: each of these windows gets the message once, at the end of
\* its list, and the listener of an unmounted ChatWindow is not called.
C18_Delivery ==
  (event.kind = "publish" /\ event.failed = {}) =>
    /\ event.delivered = listeners
    /\ Range(listeners) = Mounted
    /\ Len(listeners) = Cardinality(Mounted)
    /\ messages = Append(SubSeq(messages, 1, Len(messages) - 1),
                         Msg(event.mid, "ai"))
    /\ event.mid \notin Ids(SubSeq(messages, 1, Len(messages) - 1))
    /\ IF "mobile" \in Mounted
       THEN /\ Last(mobileMessages) = Msg(event.mid, "ai")
            /\ event.mid \notin
                 Ids(SubSeq(mobileMessages, 1, Len(mobileMessages) - 1))
       ELSE mobileMessages = <<>>

\* C18 witness: the mobile ChatWindow was unmounted and mounted again, so
\* that its listener is the second one; both windows got the message.
C18_Witness ==
  /\ event.kind = "publish" /\ event.failed = {}
  /\ event.delivered = <<"desktop", "mobile">>
  /\ Last(messages).id = event.mid
  /\ Last(mobileMessages).id = event.mid

\* C21: a chat answer, from the backend or the offline fallback, that
\* carries should_request_screen_share = true makes Home request a sharing
\* session (isScreenShareRequested true, screen tab shown) in the task that
\* handles it; an answer with the flag false leaves Home as it was.
C21_ShareRequested ==
  [][event'.kind = "reply" =>
       IF event'.share
       THEN isScreenShareRequested' /\ activeTab' = "screen"
       ELSE /\ isScreenShareRequested' = isScreenShareRequested
            /\ activeTab' = activeTab
            /\ isScreenSharing' = isScreenSharing]_vars

\* C21 witness: the offline fallback asked for the screen, and Home, which
\* had no request before, shows the screen tab with the request raised.
C21_Witness ==
  /\ event.kind = "reply" /\ event.branch = "fallback" /\ event.share
  /\ isScreenShareRequested /\ ~isScreenSharing /\ ~isSharing
  /\ nextStream = 1
  /\ activeTab = "screen"

C23_SynthesisOnce ==
  [][event'.started # NoId =>
       /\ event'.started \notin playedMessageIds
       /\ \A o \in BagToSet(ttsOps) : o.msg.id # event'.started]_vars

C25_LoadingWhileOutstanding == isLoading <=> chatReqs # <<>>

\* C26: once the chat window has a conversation id, no chat answer and no
\* 'ai-message' event replaces it: only a conversation load changes it.
C26_ConversationIdKept ==
  [][(conversationId # NoConv /\ event'.kind # "load") =>
       conversationId' = conversationId]_vars

\* No startScreenShare call is in flight: ScreenShare is settled.
Settled == startOps = <<>>

\* C27: in every settled state of ScreenShare the stream is held exactly
\* while isSharing, and token and channel name are dropped whenever it is
\* not sharing.
C27_StreamIffSharing ==
  Settled =>
    /\ (stream # NoStream) <=> isSharing
    /\ ~isSharing => (agoraToken = FALSE /\ channelName = FALSE)

\* C27, for the two ways a session ends: in the settled state after the
\* Stop Sharing button and in the one after the end of the captured track,
\* ScreenShare is not sharing and holds no stream.
C27_StoppedHoldsNoStream ==
  (Settled /\ event.kind \in {"stopShare", "trackEnded"}) =>
    (stream = NoStream /\ ~isSharing)

\* C28: a start that fails, at the token or at the capture permission,
\* leaves ScreenShare and Home as sharing or not sharing as they were
\* (onStart is not called), sets the error message and ends with
\* isGeneratingToken false; the panel that was not sharing offers the
\* start again.
C28_FailedStart ==
  [][event'.kind = "startFailed" =>
       /\ isSharing' = isSharing /\ stream' = stream
       /\ isScreenSharing' = isScreenSharing
       /\ shareError'
       /\ ~isGeneratingToken'
       /\ (isScreenShareRequested /\ ~isSharing) =>
            (isScreenShareRequested' /\ ~isSharing' /\ ~isGeneratingToken')]_vars

\* C28 witness: the token was refused; the panel is requested, not
\* sharing, shows the error and has its start button enabled.
C28_Witness ==
  /\ event.kind = "startFailed" /\ event.phase = "token"
  /\ isScreenShareRequested /\ ~isSharing /\ ~isScreenSharing
  /\ shareError /\ ~isGeneratingToken
  /\ startOps = <<>>

\* C29: in Home, isScreenSharing is true only while isScreenShareRequested
\* is true, and a stop has reset both flags and selected the chat tab.
C29_SharingOnlyWhileRequested ==
  /\ isScreenSharing => isScreenShareRequested
  /\ event.kind \in {"stopShare", "trackEnded"} =>
       (~isScreenSharing /\ ~isScreenShareRequested /\ activeTab = "chat")

\* C30: every request method resolves and never rejects: its promise is
\* fulfilled with {success: true, data} when the HTTP request succeeded
\* and with {success: false, error} when it failed in any way, the latter
\* carrying a fallback answer for sendMessage and for no other method.
C30_ServicesResolve ==
  event.kind = "call" =>
    /\ event.promise.settled = "fulfilled"
    /\ IF event.outcome = "ok"
       THEN /\ DOMAIN event.promise.value = {"success", "data"}
            /\ event.promise.value.success
       ELSE /\ DOMAIN event.promise.value =
                 {"success", "error"} \cup
                   (IF event.method = "sendMessage" THEN {"fallback"} ELSE {})
            /\ ~event.promise.value.success

\* C30 witness: the interceptor itself threw on a null error body, and
\* getConversation still resolved with a failure result without fallback.
C30_Witness ==
  /\ event.kind = "call"
  /\ event.method = "getConversation" /\ event.outcome = "nullBody"
  /\ event.promise = Fulfilled([success |-> FALSE,
                                error |-> "null has no properties"])

====
